---- MODULE Spec2Model ----
(***************************************************************************)
(* Stream-cipher framing layer of the TCP relay                            *)
(* (src/relay/tcprelay/stream.rs): EncryptedWriter and DecryptedReader.    *)
(*                                                                         *)
(* One poll_* call is modelled as an entry action (the code from the top   *)
(* of the call to the first transport call or to the return) followed by   *)
(* one action per transport result (the code from that result to the next  *)
(* transport call or to the return).  While a call is in progress no other *)
(* action of that object is enabled.                                       *)
(***************************************************************************)
EXTENDS Integers, Sequences, FiniteSets, TLC

\* ------------------------------------------------------------------ bounds
MaxData == 2      \* longest plaintext slice passed to one submit call
MaxCalls == 2     \* number of poll_write_encrypted calls in one behaviour
IvLen == 2        \* length of the IV the writer was constructed with
BlockSize == 2    \* block length of the buffering cipher kind
BUFFER_SIZE == 2  \* capacity of the reader's incoming_buffer (scaled down)
MaxCipher == 3    \* longest transport input of the reader
MaxPlain == 3     \* longest plaintext of the round trip
MaxDst == 2       \* longest destination slice passed to one fill call
MaxNotReady == 2  \* not-ready answers of the transport in the liveness runs

Byte == {0, 1}
M == Cardinality(Byte)

RECURSIVE SeqsUpTo(_)
SeqsUpTo(n) ==
    IF n = 0 THEN {<< >>}
    ELSE LET S == SeqsUpTo(n - 1)
         IN  S \cup {Append(s, b) : s \in {t \in S : Len(t) = n - 1}, b \in Byte}

Slices == SeqsUpTo(MaxData)

Take(s, n) == SubSeq(s, 1, n)
Drop(s, n) == SubSeq(s, n + 1, Len(s))
IsPrefix(s, t) == Len(s) <= Len(t) /\ Take(t, Len(s)) = s

\* ------------------------------------------------------ streaming cipher
\* The cipher lives in crate::crypto, outside this file.  It is modelled
\* from its interface: a keystream cipher with an explicit position, in two
\* kinds.  "stream" emits one output byte per input byte on update and
\* nothing on finalize; "block" holds back an incomplete block on update
\* and emits it on finalize.
CipherKinds == {"stream", "block"}

KeyStream(i) == (i + 1) % M

Enc(b, i) == (b + KeyStream(i)) % M
Dec(b, i) == (b + M - KeyStream(i)) % M

Transform(mode, s, pos) ==
    [j \in 1..Len(s) |->
        IF mode = "Encrypt" THEN Enc(s[j], pos + j - 1) ELSE Dec(s[j], pos + j - 1)]

new_stream(mode) == [mode |-> mode, pos |-> 0, pend |-> << >>]

CipherUpdate(k, c, data) ==
    LET all == c.pend \o data
        n   == IF k = "stream" THEN Len(all) ELSE (Len(all) \div BlockSize) * BlockSize
    IN  [out |-> Transform(c.mode, Take(all, n), c.pos),
         c   |-> [c EXCEPT !.pos = @ + n, !.pend = Drop(all, n)]]

CipherFinalize(k, c) ==
    [out |-> Transform(c.mode, c.pend, c.pos),
     c   |-> [c EXCEPT !.pos = @ + Len(c.pend), !.pend = << >>]]

\* Ciphertext of a sequence of slices passed to update one after the other.
RECURSIVE UpdateAll(_, _, _)
UpdateAll(k, c, ds) ==
    IF ds = << >> THEN << >>
    ELSE LET u == CipherUpdate(k, c, Head(ds))
         IN  u.out \o UpdateAll(k, u.c, Tail(ds))

VARIABLES
    kind,       \* cipher kind both objects were constructed with
    iv,         \* the IV the writer was constructed with
    \* EncryptedWriter
    w_cipher,   \* EncryptedWriter.cipher
    w_steps,    \* EncryptedWriter.steps: "Nothing" or "Writing"
    w_buf,      \* the unsent bytes of Writing(buf)
    w_iv,       \* EncryptedWriter.iv: [some, bytes]
    w_pc,       \* "ready", or "writing": a call waits for poll_write_buf
    w_data,     \* the slice of the call in progress (of the last call)
    w_ret,      \* what the last call returned: [kind, n]
    w_io,       \* the result of the last transport write
    wire,       \* every byte the transport accepted, in order
    w_bufTag,   \* for each byte of w_buf: "iv" or "ct", where it came from
    wireTag,    \* for each byte of wire: "iv" or "ct"
    w_anyErr,   \* some call has returned an error
    w_cipherErr,\* some cipher update has failed
    \* history of the writer
    w_calls,    \* calls made so far
    w_first,    \* the slice of the first call since the last success
    w_same,     \* every call since the last success passed w_first
    w_nUpd,     \* successful cipher updates since the last success
    w_upData,   \* the slice last passed to a successful cipher update
    w_base,     \* wire when that update was made
    w_full,     \* the buffer built at that update
    w_ct,       \* every byte cipher update has produced, in order
    w_taken,    \* the slices cipher update has encrypted, in order
    w_acc,      \* the slices reported as accepted, in order
    w_nr        \* not-ready answers the transport may still give (liveness runs)

wvars == <<w_cipher, w_steps, w_buf, w_iv, w_pc, w_data, w_ret, w_io, wire,
           w_bufTag, wireTag, w_anyErr, w_cipherErr, w_calls, w_first, w_same,
           w_nUpd,
           w_upData, w_base, w_full, w_ct, w_taken, w_acc, w_nr>>

VARIABLES
    \* DecryptedReader
    r_buffer,    \* DecryptedReader.buffer
    r_cipher,    \* DecryptedReader.cipher
    r_pos,       \* DecryptedReader.pos
    r_got_final, \* DecryptedReader.got_final
    r_pc,        \* "ready", "reading": a call waits for poll_read, or
                 \* "unconnected": the reader has no transport yet
    r_dst,       \* dst.len() of the call in progress (of the last call)
    r_ret,       \* what the last call returned: [kind, n]
    r_io,        \* the result of the last transport read
    r_in,        \* the bytes the transport has still to deliver before EOF
    \* history of the reader
    r_all,       \* everything the transport delivers before EOF
    r_out,       \* every byte copied to the caller, in order
    r_sawEof,    \* a transport read has returned 0 bytes
    r_finOut,    \* what cipher finalize produced
    r_finDone,   \* cipher finalize has returned successfully
    r_reads,     \* transport reads that returned bytes
    r_emptyUpd,  \* a cipher update of a non-empty input produced no output
    r_anyErr,    \* some call has returned an error
    r_cipherErr, \* some cipher update or finalize has failed
    r_cres,      \* the result of the last cipher call of the call: "ok", "fail"
    r_dec,       \* every byte cipher update and finalize have produced, in order
    r_strip      \* round trip: the IV was taken off the stream before the reader

rvars == <<r_buffer, r_cipher, r_pos, r_got_final, r_pc, r_dst, r_ret, r_io,
           r_in, r_all, r_out, r_sawEof, r_finOut, r_finDone, r_reads,
           r_emptyUpd, r_anyErr, r_cipherErr, r_cres, r_dec, r_strip>>

vars == <<kind, iv, wvars, rvars>>

IVFull == [i \in 1..IvLen |-> i % M]

NoRet == [kind |-> "none", n |-> 0]

\* EncryptedWriter::new
WriterInit ==
    /\ w_cipher = new_stream("Encrypt")
    /\ w_steps = "Nothing"
    /\ w_buf = << >>
    /\ w_iv = [some |-> TRUE, bytes |-> iv]
    /\ w_pc = "ready"
    /\ w_data = << >>
    /\ w_ret = NoRet
    /\ w_io = "none"
    /\ wire = << >>
    /\ w_bufTag = << >>
    /\ wireTag = << >>
    /\ w_anyErr = FALSE
    /\ w_cipherErr = FALSE
    /\ w_calls = 0
    /\ w_first = << >>
    /\ w_same = TRUE
    /\ w_nUpd = 0
    /\ w_upData = << >>
    /\ w_base = << >>
    /\ w_full = << >>
    /\ w_ct = << >>
    /\ w_taken = << >>
    /\ w_acc = << >>

\* A new series of calls starts after a success (or at the first call).
FreshSeries == w_ret.kind \in {"none", "ok"}

CallBookkeeping(d) ==
    /\ w_calls' = w_calls + 1
    /\ w_data' = d
    /\ w_first' = IF FreshSeries THEN d ELSE w_first
    /\ w_same' = IF FreshSeries THEN TRUE ELSE (w_same /\ d = w_first)

\* poll_write_encrypted returns Ready(Ok(data.len())).
ReturnOk(d) ==
    /\ w_ret' = [kind |-> "ok", n |-> Len(d)]
    /\ w_anyErr' = w_anyErr
    /\ w_cipherErr' = w_cipherErr
    /\ w_acc' = Append(w_acc, d)
    /\ w_pc' = "ready"

ReturnOther(k) ==
    /\ w_ret' = [kind |-> k, n |-> 0]
    /\ w_anyErr' = (w_anyErr \/ k # "pending")
    /\ w_cipherErr' = (w_cipherErr \/ k = "err_cipher")
    /\ w_acc' = w_acc
    /\ w_pc' = "ready"

Tags(t, n) == [i \in 1..n |-> t]

\* SubmitEncrypt with the IV taken but not put into the buffer.
SubmitEncrypt_NoIv(d) ==
    /\ w_pc = "ready" /\ w_steps = "Nothing"
    /\ CallBookkeeping(d)
    /\ LET u == CipherUpdate(kind, w_cipher, d)
       IN  /\ w_iv' = [some |-> FALSE, bytes |-> << >>]
           /\ w_cipher' = u.c
           /\ w_nUpd' = (IF FreshSeries THEN 0 ELSE w_nUpd) + 1
           /\ w_upData' = d
           /\ w_base' = wire
           /\ w_full' = u.out
           /\ w_ct' = w_ct \o u.out
           /\ w_taken' = Append(w_taken, d)
           /\ IF Len(u.out) > 0
              THEN /\ w_steps' = "Writing"
                   /\ w_buf' = u.out
                   /\ w_bufTag' = Tags("ct", Len(u.out))
                   /\ w_pc' = "writing"
                   /\ UNCHANGED <<w_ret, w_acc, w_anyErr, w_cipherErr>>
              ELSE /\ w_steps' = "Nothing"
                   /\ w_buf' = << >>
                   /\ w_bufTag' = << >>
                   /\ ReturnOk(d)
    /\ w_io' = "none"
    /\ UNCHANGED <<kind, iv, wire, wireTag, w_nr>>
    /\ UNCHANGED rvars

\* SubmitEncrypt with the write loop entered before buf.remaining() is
\* tested: a transport write is issued for an empty buffer too.
SubmitEncrypt_AlwaysWrite(d) ==
    /\ w_pc = "ready" /\ w_steps = "Nothing"
    /\ CallBookkeeping(d)
    /\ LET u   == CipherUpdate(kind, w_cipher, d)
           ivb == IF w_iv.some THEN w_iv.bytes ELSE << >>
           buf == ivb \o u.out
       IN  /\ w_iv' = [some |-> FALSE, bytes |-> << >>]
           /\ w_cipher' = u.c
           /\ w_nUpd' = (IF FreshSeries THEN 0 ELSE w_nUpd) + 1
           /\ w_upData' = d
           /\ w_base' = wire
           /\ w_full' = buf
           /\ w_ct' = w_ct \o u.out
           /\ w_taken' = Append(w_taken, d)
           /\ w_steps' = "Writing"
           /\ w_buf' = buf
           /\ w_bufTag' = Tags("iv", Len(ivb)) \o Tags("ct", Len(u.out))
           /\ w_pc' = "writing"
           /\ UNCHANGED <<w_ret, w_acc, w_anyErr, w_cipherErr>>
    /\ w_io' = "none"
    /\ UNCHANGED <<kind, iv, wire, wireTag, w_nr>>
    /\ UNCHANGED rvars

\* A call that finds steps = Nothing: take the IV, update the cipher, enter
\* Writing; an empty buffer is drained at once.
SubmitEncrypt(d) ==
    /\ w_pc = "ready" /\ w_steps = "Nothing"
    /\ CallBookkeeping(d)
    /\ LET u   == CipherUpdate(kind, w_cipher, d)
           ivb == IF w_iv.some THEN w_iv.bytes ELSE << >>
           buf == ivb \o u.out
       IN  /\ w_iv' = [some |-> FALSE, bytes |-> << >>]
           /\ w_cipher' = u.c
           /\ w_nUpd' = (IF FreshSeries THEN 0 ELSE w_nUpd) + 1
           /\ w_upData' = d
           /\ w_base' = wire
           /\ w_full' = buf
           /\ w_ct' = w_ct \o u.out
           /\ w_taken' = Append(w_taken, d)
           /\ IF Len(buf) > 0
              THEN /\ w_steps' = "Writing"
                   /\ w_buf' = buf
                   /\ w_bufTag' = Tags("iv", Len(ivb)) \o Tags("ct", Len(u.out))
                   /\ w_pc' = "writing"
                   /\ UNCHANGED <<w_ret, w_acc, w_anyErr, w_cipherErr>>
              ELSE /\ w_steps' = "Nothing"
                   /\ w_buf' = << >>
                   /\ w_bufTag' = << >>
                   /\ ReturnOk(d)
    /\ w_io' = "none"
    /\ UNCHANGED <<kind, iv, wire, wireTag, w_nr>>
    /\ UNCHANGED rvars

\* A call that finds steps = Nothing and whose cipher update fails: the
\* error is returned after the IV was taken; the local buffer is dropped.
SubmitCipherErr(d) ==
    /\ w_pc = "ready" /\ w_steps = "Nothing"
    /\ CallBookkeeping(d)
    /\ w_iv' = [some |-> FALSE, bytes |-> << >>]
    /\ w_nUpd' = IF FreshSeries THEN 0 ELSE w_nUpd
    /\ ReturnOther("err_cipher")
    /\ w_io' = "none"
    /\ UNCHANGED <<kind, iv, w_cipher, w_steps, w_buf, w_bufTag, wire, wireTag,
                   w_upData, w_base, w_full, w_ct, w_taken, w_nr>>
    /\ UNCHANGED rvars

\* SubmitResume with the offset forgotten: the retry restarts from the
\* first byte of the buffer.
SubmitResume_Restart(d) ==
    /\ w_pc = "ready" /\ w_steps = "Writing"
    /\ CallBookkeeping(d)
    /\ w_nUpd' = IF FreshSeries THEN 0 ELSE w_nUpd
    /\ w_pc' = "writing"
    /\ w_io' = "none"
    /\ w_buf' = w_full
    /\ w_bufTag' = Tags("ct", Len(w_full))
    /\ UNCHANGED <<kind, iv, w_cipher, w_steps, w_iv, w_ret,
                   wire, wireTag, w_anyErr, w_cipherErr, w_upData, w_base, w_full,
                   w_ct, w_taken,
                   w_acc, w_nr>>
    /\ UNCHANGED rvars

\* SubmitResume with the Writing arm passing the call's slice to cipher
\* update and queueing the output behind the unsent bytes.
SubmitResume_ReEncrypt(d) ==
    /\ w_pc = "ready" /\ w_steps = "Writing"
    /\ CallBookkeeping(d)
    /\ LET u == CipherUpdate(kind, w_cipher, d)
       IN  /\ w_cipher' = u.c
           /\ w_nUpd' = (IF FreshSeries THEN 0 ELSE w_nUpd) + 1
           /\ w_ct' = w_ct \o u.out
           /\ w_taken' = Append(w_taken, d)
           /\ w_buf' = w_buf \o u.out
           /\ w_bufTag' = w_bufTag \o Tags("ct", Len(u.out))
           /\ w_full' = w_full \o u.out
    /\ w_pc' = "writing"
    /\ w_io' = "none"
    /\ UNCHANGED <<kind, iv, w_steps, w_iv, w_ret, wire, wireTag, w_anyErr,
                   w_cipherErr, w_upData, w_base, w_acc, w_nr>>
    /\ UNCHANGED rvars

\* A call that finds steps = Writing(buf): buf has unsent bytes, the
\* transport write is issued for them.
SubmitResume(d) ==
    /\ w_pc = "ready" /\ w_steps = "Writing"
    /\ CallBookkeeping(d)
    /\ w_nUpd' = IF FreshSeries THEN 0 ELSE w_nUpd
    /\ w_pc' = "writing"
    /\ w_io' = "none"
    /\ UNCHANGED <<kind, iv, w_cipher, w_steps, w_buf, w_bufTag, w_iv, w_ret,
                   wire, wireTag, w_anyErr, w_cipherErr, w_upData, w_base, w_full,
                   w_ct, w_taken,
                   w_acc, w_nr>>
    /\ UNCHANGED rvars

\* What a transport result leaves alone.
WriteFrame ==
    /\ UNCHANGED <<kind, iv, w_cipher, w_iv, w_data, w_calls, w_first, w_same,
                   w_nUpd, w_upData, w_base, w_full, w_ct, w_taken>>
    /\ UNCHANGED rvars

\* WriteSome without the loop: success is reported after one write.
WriteSome_Once(n) ==
    /\ w_pc = "writing"
    /\ n \in 1..Len(w_buf)
    /\ wire' = wire \o Take(w_buf, n)
    /\ wireTag' = wireTag \o Take(w_bufTag, n)
    /\ w_buf' = << >>
    /\ w_bufTag' = << >>
    /\ w_io' = "some"
    /\ w_steps' = "Nothing"
    /\ ReturnOk(w_data)
    /\ WriteFrame
    /\ UNCHANGED w_nr

\* WriteSome with a partial write that does not advance buf: the bytes the
\* transport took stay at the head of the unsent bytes.
WriteSome_NoAdvance(n) ==
    /\ w_pc = "writing"
    /\ n \in 1..Len(w_buf)
    /\ wire' = wire \o Take(w_buf, n)
    /\ wireTag' = wireTag \o Take(w_bufTag, n)
    /\ w_io' = "some"
    /\ IF n < Len(w_buf)
       THEN UNCHANGED <<w_buf, w_bufTag, w_steps, w_pc, w_ret, w_acc, w_anyErr,
                        w_cipherErr>>
       ELSE /\ w_buf' = << >>
            /\ w_bufTag' = << >>
            /\ w_steps' = "Nothing"
            /\ ReturnOk(w_data)
    /\ WriteFrame
    /\ UNCHANGED w_nr

\* poll_write_buf is Ready(Ok(n)), n > 0: buf advances by n; the loop goes
\* on while bytes remain, else the writer is back in Nothing and returns.
WriteSome(n) ==
    /\ w_pc = "writing"
    /\ n \in 1..Len(w_buf)
    /\ wire' = wire \o Take(w_buf, n)
    /\ wireTag' = wireTag \o Take(w_bufTag, n)
    /\ w_buf' = Drop(w_buf, n)
    /\ w_bufTag' = Drop(w_bufTag, n)
    /\ w_io' = "some"
    /\ IF n < Len(w_buf)
       THEN UNCHANGED <<w_steps, w_pc, w_ret, w_acc, w_anyErr, w_cipherErr>>
       ELSE /\ w_steps' = "Nothing"
            /\ ReturnOk(w_data)
    /\ WriteFrame
    /\ UNCHANGED w_nr

\* WriteZero taken for a not-ready result: the caller is told to retry.
WriteZero_Retry ==
    /\ w_pc = "writing"
    /\ w_io' = "zero"
    /\ ReturnOther("pending")
    /\ WriteFrame
    /\ UNCHANGED <<w_steps, w_buf, w_bufTag, wire, wireTag, w_nr>>

\* poll_write_buf is Ready(Ok(0)) with bytes remaining: UnexpectedEof.
WriteZero ==
    /\ w_pc = "writing"
    /\ w_io' = "zero"
    /\ ReturnOther("err_eof")
    /\ WriteFrame
    /\ UNCHANGED <<w_steps, w_buf, w_bufTag, wire, wireTag, w_nr>>

\* poll_write_buf is Pending: ready! returns Pending.
WritePending ==
    /\ w_pc = "writing"
    /\ w_io' = "pending"
    /\ ReturnOther("pending")
    /\ WriteFrame
    /\ UNCHANGED <<w_steps, w_buf, w_bufTag, wire, wireTag>>

\* WriteErr with the writer put back in Nothing: the unsent bytes are
\* dropped with the error.
WriteErr_Reset ==
    /\ w_pc = "writing"
    /\ w_io' = "err"
    /\ ReturnOther("err_io")
    /\ w_steps' = "Nothing"
    /\ w_buf' = << >>
    /\ w_bufTag' = << >>
    /\ WriteFrame
    /\ UNCHANGED <<wire, wireTag, w_nr>>

\* poll_write_buf is Ready(Err(e)): ? returns the error.
WriteErr ==
    /\ w_pc = "writing"
    /\ w_io' = "err"
    /\ ReturnOther("err_io")
    /\ WriteFrame
    /\ UNCHANGED <<w_steps, w_buf, w_bufTag, wire, wireTag, w_nr>>

MaxBuf == IvLen + MaxData + BlockSize

\* DecryptedReader::new
ReaderInit ==
    /\ r_buffer = << >>
    /\ r_cipher = new_stream("Decrypt")
    /\ r_pos = 0
    /\ r_got_final = FALSE
    /\ r_dst = 0
    /\ r_ret = NoRet
    /\ r_io = "none"
    /\ r_out = << >>
    /\ r_sawEof = FALSE
    /\ r_finOut = << >>
    /\ r_finDone = FALSE
    /\ r_reads = 0
    /\ r_emptyUpd = FALSE
    /\ r_anyErr = FALSE
    /\ r_cipherErr = FALSE
    /\ r_cres = "none"
    /\ r_dec = << >>

ReaderUnconnected ==
    /\ ReaderInit
    /\ r_pc = "unconnected"
    /\ r_in = << >>
    /\ r_all = << >>
    /\ r_strip = FALSE

\* ------------------------------------------------------------- the reader
Min(a, b) == IF a < b THEN a ELSE b

RFrame == UNCHANGED <<kind, iv, wvars, r_all, r_strip>>

RetOk(n) ==
    /\ r_ret' = [kind |-> "ok", n |-> n]
    /\ r_anyErr' = r_anyErr
    /\ r_cipherErr' = r_cipherErr
    /\ r_pc' = "ready"

RetOther(k) ==
    /\ r_ret' = [kind |-> k, n |-> 0]
    /\ r_anyErr' = (r_anyErr \/ k # "pending")
    /\ r_cipherErr' = (r_cipherErr \/ k = "err_cipher")
    /\ r_pc' = "ready"

\* CopyOut without the min: the cursor advances by the destination length.
CopyOut_NoMin(buf, pos, dst) ==
    LET n == Min(dst, Len(buf) - pos)
    IN  /\ r_out' = r_out \o SubSeq(buf, pos + 1, pos + n)
        /\ r_pos' = pos + dst
        /\ RetOk(dst)

\* Lines 76-80: copy min(dst.len(), buffer.len() - pos) bytes of buf from
\* pos on, advance pos, return the count.
CopyOut(buf, pos, dst) ==
    LET n == Min(dst, Len(buf) - pos)
    IN  /\ r_out' = r_out \o SubSeq(buf, pos + 1, pos + n)
        /\ r_pos' = pos + n
        /\ RetOk(n)

\* AfterRefill with an if for the while: an empty refill returns 0.
AfterRefill_NoLoop(buf, final) ==
    IF Len(buf) > 0
    THEN CopyOut(buf, 0, r_dst)
    ELSE /\ r_pos' = 0
         /\ r_out' = r_out
         /\ RetOk(0)

\* The loop test after the buffer was refilled with buf (pos is 0): copy
\* out if buf has bytes, else return 0 if final, else read again.
AfterRefill(buf, final) ==
    IF Len(buf) > 0
    THEN CopyOut(buf, 0, r_dst)
    ELSE /\ r_pos' = 0
         /\ r_out' = r_out
         /\ IF final THEN RetOk(0)
            ELSE UNCHANGED <<r_ret, r_anyErr, r_cipherErr, r_pc>>

\* Fill with the loop entered whenever the destination is larger than what
\* is left of the buffer: a transport read is issued over undelivered bytes.
Fill_EarlyRead(dst) ==
    /\ r_pc = "ready"
    /\ r_dst' = dst
    /\ r_io' = "none"
    /\ r_cres' = "none"
    /\ r_dec' = r_dec
    /\ IF r_pos < Len(r_buffer) /\ dst <= Len(r_buffer) - r_pos
       THEN CopyOut(r_buffer, r_pos, dst)
       ELSE /\ UNCHANGED <<r_pos, r_out>>
            /\ IF r_got_final THEN RetOk(0)
               ELSE /\ r_pc' = "reading"
                    /\ UNCHANGED <<r_ret, r_anyErr, r_cipherErr>>
    /\ UNCHANGED <<r_buffer, r_cipher, r_got_final, r_in, r_sawEof, r_finOut,
                   r_finDone, r_reads, r_emptyUpd>>
    /\ RFrame

\* A call of poll_read_decrypted with a destination of dst bytes, up to its
\* return or to its first transport read.
Fill(dst) ==
    /\ r_pc = "ready"
    /\ r_dst' = dst
    /\ r_io' = "none"
    /\ r_cres' = "none"
    /\ r_dec' = r_dec
    /\ IF r_pos < Len(r_buffer)
       THEN CopyOut(r_buffer, r_pos, dst)
       ELSE /\ UNCHANGED <<r_pos, r_out>>
            /\ IF r_got_final THEN RetOk(0)
               ELSE /\ r_pc' = "reading"
                    /\ UNCHANGED <<r_ret, r_anyErr, r_cipherErr>>
    /\ UNCHANGED <<r_buffer, r_cipher, r_got_final, r_in, r_sawEof, r_finOut,
                   r_finDone, r_reads, r_emptyUpd>>
    /\ RFrame

\* ReadData without "self.pos = 0": the cursor of the last buffer is kept.
ReadData_NoPosReset(n) ==
    /\ r_pc = "reading"
    /\ n \in 1..Min(BUFFER_SIZE, Len(r_in))
    /\ r_io' = "data"
    /\ r_in' = Drop(r_in, n)
    /\ LET u == CipherUpdate(kind, r_cipher, Take(r_in, n))
       IN  /\ r_cipher' = u.c
           /\ r_buffer' = u.out
           /\ r_dec' = r_dec \o u.out
           /\ r_cres' = "ok"
           /\ r_emptyUpd' = (r_emptyUpd \/ u.out = << >>)
           /\ IF r_pos < Len(u.out)
              THEN CopyOut(u.out, r_pos, r_dst)
              ELSE UNCHANGED <<r_pos, r_out, r_ret, r_anyErr, r_cipherErr, r_pc>>
    /\ r_reads' = r_reads + 1
    /\ UNCHANGED <<r_got_final, r_dst, r_sawEof, r_finOut, r_finDone>>
    /\ RFrame

\* poll_read is Ready(Ok(n)), n > 0: reset the buffer, update the cipher
\* with the n bytes read, go round the loop.
ReadData(n) ==
    /\ r_pc = "reading"
    /\ n \in 1..Min(BUFFER_SIZE, Len(r_in))
    /\ r_io' = "data"
    /\ r_in' = Drop(r_in, n)
    /\ LET u == CipherUpdate(kind, r_cipher, Take(r_in, n))
       IN  /\ r_cipher' = u.c
           /\ r_buffer' = u.out
           /\ r_dec' = r_dec \o u.out
           /\ r_cres' = "ok"
           /\ r_emptyUpd' = (r_emptyUpd \/ u.out = << >>)
           /\ AfterRefill(u.out, FALSE)
    /\ r_reads' = r_reads + 1
    /\ UNCHANGED <<r_got_final, r_dst, r_sawEof, r_finOut, r_finDone>>
    /\ RFrame

\* ReadDataCipherErr with the failure of cipher update dropped: the loop
\* goes on to the next transport read.
ReadDataCipherErr_Swallow(n) ==
    /\ r_pc = "reading"
    /\ n \in 1..Min(BUFFER_SIZE, Len(r_in))
    /\ r_io' = "data"
    /\ r_in' = Drop(r_in, n)
    /\ r_buffer' = << >>
    /\ r_pos' = 0
    /\ r_cres' = "fail"
    /\ r_dec' = r_dec
    /\ r_reads' = r_reads + 1
    /\ UNCHANGED <<r_ret, r_anyErr, r_cipherErr, r_pc>>
    /\ UNCHANGED <<r_cipher, r_got_final, r_dst, r_out, r_sawEof, r_finOut,
                   r_finDone, r_emptyUpd>>
    /\ RFrame

\* poll_read is Ready(Ok(n)), n > 0, and cipher update fails: the buffer
\* was reset, the bytes read are gone, the error is returned.
ReadDataCipherErr(n) ==
    /\ r_pc = "reading"
    /\ n \in 1..Min(BUFFER_SIZE, Len(r_in))
    /\ r_io' = "data"
    /\ r_in' = Drop(r_in, n)
    /\ r_buffer' = << >>
    /\ r_pos' = 0
    /\ r_cres' = "fail"
    /\ r_dec' = r_dec
    /\ RetOther("err_cipher")
    /\ r_reads' = r_reads + 1
    /\ UNCHANGED <<r_cipher, r_got_final, r_dst, r_out, r_sawEof, r_finOut,
                   r_finDone, r_emptyUpd>>
    /\ RFrame

\* ReadEof without "self.got_final = true".
ReadEof_NoFlag ==
    /\ r_pc = "reading"
    /\ r_in = << >>
    /\ r_io' = "eof"
    /\ r_sawEof' = TRUE
    /\ LET f == CipherFinalize(kind, r_cipher)
       IN  /\ r_cipher' = f.c
           /\ r_buffer' = f.out
           /\ r_dec' = r_dec \o f.out
           /\ r_cres' = "ok"
           /\ r_finOut' = f.out
           /\ r_finDone' = TRUE
           /\ AfterRefill(f.out, FALSE)
    /\ UNCHANGED <<r_got_final, r_dst, r_in, r_reads, r_emptyUpd>>
    /\ RFrame

\* poll_read is Ready(Ok(0)): reset the buffer, finalize the cipher into
\* it, set got_final, go round the loop.
ReadEof ==
    /\ r_pc = "reading"
    /\ r_in = << >>
    /\ r_io' = "eof"
    /\ r_sawEof' = TRUE
    /\ LET f == CipherFinalize(kind, r_cipher)
       IN  /\ r_cipher' = f.c
           /\ r_buffer' = f.out
           /\ r_dec' = r_dec \o f.out
           /\ r_cres' = "ok"
           /\ r_finOut' = f.out
           /\ r_got_final' = TRUE
           /\ r_finDone' = TRUE
           /\ AfterRefill(f.out, TRUE)
    /\ UNCHANGED <<r_dst, r_in, r_reads, r_emptyUpd>>
    /\ RFrame

\* poll_read is Ready(Ok(0)) and cipher finalize fails: the buffer was
\* reset, got_final is not set, the error is returned.
ReadEofCipherErr ==
    /\ r_pc = "reading"
    /\ r_in = << >>
    /\ r_io' = "eof"
    /\ r_sawEof' = TRUE
    /\ r_buffer' = << >>
    /\ r_pos' = 0
    /\ r_cres' = "fail"
    /\ r_dec' = r_dec
    /\ RetOther("err_cipher")
    /\ UNCHANGED <<r_cipher, r_got_final, r_dst, r_in, r_out, r_finOut,
                   r_finDone, r_reads, r_emptyUpd>>
    /\ RFrame

\* ReadPending with the buffer reset moved before the transport read.
ReadPending_Reset ==
    /\ r_pc = "reading"
    /\ r_io' = "pending"
    /\ RetOther("pending")
    /\ UNCHANGED <<r_cres, r_dec>>
    /\ r_buffer' = << >>
    /\ r_pos' = 0
    /\ UNCHANGED <<r_cipher, r_got_final, r_dst, r_in, r_out,
                   r_sawEof, r_finOut, r_finDone, r_reads, r_emptyUpd>>
    /\ RFrame

\* poll_read is Pending: ready! returns Pending.
ReadPending ==
    /\ r_pc = "reading"
    /\ r_io' = "pending"
    /\ RetOther("pending")
    /\ UNCHANGED <<r_cres, r_dec>>
    /\ UNCHANGED <<r_buffer, r_cipher, r_pos, r_got_final, r_dst, r_in, r_out,
                   r_sawEof, r_finOut, r_finDone, r_reads, r_emptyUpd>>
    /\ RFrame

\* poll_read is Ready(Err(e)): ? returns the error.
ReadErr ==
    /\ r_pc = "reading"
    /\ r_io' = "err"
    /\ RetOther("err_io")
    /\ UNCHANGED <<r_cres, r_dec>>
    /\ UNCHANGED <<r_buffer, r_cipher, r_pos, r_got_final, r_dst, r_in, r_out,
                   r_sawEof, r_finOut, r_finDone, r_reads, r_emptyUpd>>
    /\ RFrame

\* What the reader hands out when every transport read fills the incoming
\* buffer as far as the input allows and the caller takes all of it.
RECURSIVE BigReads(_, _, _)
BigReads(k, c, input) ==
    IF input = << >> THEN CipherFinalize(k, c).out
    ELSE LET n == Min(BUFFER_SIZE, Len(input))
             u == CipherUpdate(k, c, Take(input, n))
         IN  u.out \o BigReads(k, u.c, Drop(input, n))

\* ------------------------------------------------- the reader on its own
\* Any transport input, any split of it into reads, any destination sizes,
\* any outcome of the transport reads and of the cipher calls.
ReaderInitAll ==
    /\ kind \in CipherKinds
    /\ iv = IVFull
    /\ WriterInit
    /\ w_nr = 0
    /\ ReaderInit
    /\ r_pc = "ready"
    /\ r_all \in SeqsUpTo(MaxCipher)
    /\ r_in = r_all
    /\ r_strip = FALSE

ReaderNext ==
    \/ \E dst \in 0..MaxDst : Fill(dst)
    \/ \E n \in 1..BUFFER_SIZE : ReadData(n)
    \/ \E n \in 1..BUFFER_SIZE : ReadDataCipherErr(n)
    \/ ReadEof
    \/ ReadEofCipherErr
    \/ ReadPending
    \/ ReadErr

ReaderSpec == ReaderInitAll /\ [][ReaderNext]_vars

\* ------------------------------------------------- the writer on its own
\* Any caller (any slice on any call, retries included) and any transport.
WriterInitAll ==
    /\ kind \in CipherKinds
    /\ iv \in {<< >>, IVFull}
    /\ WriterInit
    /\ w_nr = 0
    /\ ReaderUnconnected

WriterNext ==
    \/ \E d \in Slices : w_calls < MaxCalls /\ SubmitEncrypt(d)
    \/ \E d \in Slices : w_calls < MaxCalls /\ SubmitCipherErr(d)
    \/ \E d \in Slices : w_calls < MaxCalls /\ SubmitResume(d)
    \/ \E n \in 1..MaxBuf : WriteSome(n)
    \/ WriteZero
    \/ WritePending /\ UNCHANGED w_nr
    \/ WriteErr

WriterSpec == WriterInitAll /\ [][WriterNext]_vars

\* ------------------------------------- the writer with a willing transport
\* One slice, re-issued on every retry; the transport never fails, accepts
\* at least one byte on each write it completes and is not ready at most
\* MaxNotReady times.
WriterLiveInit ==
    /\ kind \in CipherKinds
    /\ iv \in {<< >>, IVFull}
    /\ WriterInit
    /\ w_nr = MaxNotReady
    /\ ReaderUnconnected

WriterLiveNext ==
    \/ \E d \in Slices : w_calls = 0 /\ SubmitEncrypt(d)
    \/ w_ret.kind = "pending" /\ SubmitResume(w_first)
    \/ \E n \in 1..MaxBuf : WriteSome(n)
    \/ w_nr > 0 /\ WritePending /\ w_nr' = w_nr - 1

\* The caller keeps polling and the transport keeps answering.
WriterLiveSpec == WriterLiveInit /\ [][WriterLiveNext]_vars /\ WF_vars(WriterLiveNext)

\* ------------------------------------------------------------ round trip
\* One submit of a plaintext of up to MaxPlain bytes, its transport taking
\* the bytes in any pieces; then the bytes the transport received are the
\* transport input of a reader of the same kind, key and IV, either as they
\* are or with the IV taken off first (the reader is constructed with the
\* IV, its caller has it already).
Connect(strip) ==
    /\ r_pc = "unconnected"
    /\ w_pc = "ready" /\ w_ret.kind = "ok"
    /\ r_pc' = "ready"
    /\ r_strip' = strip
    /\ r_all' = IF strip THEN Drop(wire, Len(iv)) ELSE wire
    /\ r_in' = r_all'
    /\ UNCHANGED <<kind, iv, wvars, r_buffer, r_cipher, r_pos, r_got_final,
                   r_dst, r_ret, r_io, r_out, r_sawEof, r_finOut, r_finDone,
                   r_reads, r_emptyUpd, r_anyErr, r_cipherErr, r_cres, r_dec>>

Init ==
    /\ kind \in CipherKinds
    /\ iv \in {<< >>, IVFull}
    /\ WriterInit
    /\ w_nr = 0
    /\ ReaderUnconnected

Next ==
    \/ \E d \in SeqsUpTo(MaxPlain) : w_calls = 0 /\ SubmitEncrypt(d)
    \/ \E n \in 1..(IvLen + MaxPlain) : WriteSome(n)
    \/ \E strip \in BOOLEAN : Connect(strip)
    \/ \E dst \in 0..MaxDst : Fill(dst)
    \/ \E n \in 1..BUFFER_SIZE : ReadData(n)
    \/ ReadEof
    \/ ReadPending

Spec == Init /\ [][Next]_vars

\* The reader has reached the end of the stream and handed out everything.
ReaderDone == r_pc = "ready" /\ r_got_final /\ r_pos >= Len(r_buffer)

\* The part of a plaintext whose ciphertext one cipher update emits.
Emitted(k, P) ==
    IF k = "stream" THEN P ELSE Take(P, (Len(P) \div BlockSize) * BlockSize)

\* ----------------------------------------------------------------- claims

\* C1 as stated: the bytes the writer emits for submit(P), fed as they are
\* to a reader of the same kind, key and IV and followed by EOF, come out
\* of fill as exactly P.
C1_RoundTripAsEmitted ==
    (ReaderDone /\ ~r_strip) => r_out = w_first

\* C1 amended: the bytes the writer emits for submit(P), with the first
\* iv_length bytes taken off, fed to a reader of the same kind, key and IV
\* and followed by EOF, come out of fill as the part of P whose ciphertext
\* cipher update emitted: all of P for a cipher that emits one byte per
\* input byte, P without its incomplete last block for one that holds it
\* back until finalize, which the writer never calls.
C1_RoundTripStripped ==
    (ReaderDone /\ r_strip) => r_out = Emitted(kind, w_first)

\* A plaintext longer than the incoming buffer has come back whole.
C1_Witness ==
    /\ ReaderDone /\ r_strip /\ r_ret = [kind |-> "ok", n |-> 0]
    /\ kind = "stream" /\ iv = IVFull
    /\ Len(w_first) > BUFFER_SIZE
    /\ r_out = w_first

\* C2: with the same slice re-issued on every retry, submit reports success
\* only when the slice went through cipher update exactly once and the whole
\* buffer built then has been accepted by the transport; the count is the
\* slice's length; every other outcome is pending or an error.
C2_FullAcceptance ==
    /\ (w_pc = "ready" /\ w_ret.kind = "ok" /\ w_same) =>
          /\ w_ret.n = Len(w_first)
          /\ w_nUpd = 1
          /\ w_upData = w_first
          /\ wire = w_base \o w_full
          /\ w_steps = "Nothing"
          /\ w_buf = << >>
    /\ (w_pc = "ready" /\ w_calls > 0) =>
          w_ret.kind \in {"ok", "pending", "err_io", "err_eof", "err_cipher"}

\* A success reported on a retry of a two-byte slice whose buffer had the IV.
C2_Witness ==
    /\ w_pc = "ready" /\ w_ret.kind = "ok" /\ w_same
    /\ w_calls = 2 /\ w_nUpd = 1
    /\ Len(w_first) = MaxData
    /\ Len(w_full) > IvLen

\* C3: whatever the calls returned, the bytes the transport has received
\* start with the IV, which appears once, and every byte after it (and none
\* before) is ciphertext.
C3_IvOnce ==
    \A i \in 1..Len(wire) :
        IF i <= Len(iv)
        THEN wireTag[i] = "iv" /\ wire[i] = iv[i]
        ELSE wireTag[i] = "ct"

\* C5: polled with the same slice, submit eventually reports success, and
\* the transport has then received exactly the IV and the ciphertext of the
\* slice, in order.
C5_PartialIoLive ==
    <>[](/\ w_pc = "ready"
         /\ w_ret.kind = "ok"
         /\ w_ret.n = Len(w_first)
         /\ wire = iv \o CipherUpdate(kind, new_stream("Encrypt"), w_first).out)

\* Success after the transport was not ready twice and then took the bytes.
C5_Witness ==
    /\ w_pc = "ready" /\ w_ret.kind = "ok"
    /\ w_nr = 0 /\ w_calls = MaxNotReady + 1
    /\ Len(wire) > IvLen

\* C6: a transport write of 0 bytes ends the call with UnexpectedEof; a
\* not-ready transport write ends it with pending and leaves the unsent
\* bytes, the phase and the bytes on the wire as they were.
C6_ZeroWriteIsError ==
    [][/\ (w_pc = "writing" /\ w_io' = "zero") =>
             /\ Len(w_buf) > 0
             /\ w_ret'.kind = "err_eof"
             /\ w_pc' = "ready"
       /\ (w_pc = "writing" /\ w_io' = "pending") =>
             /\ w_ret'.kind = "pending"
             /\ w_pc' = "ready"
             /\ w_buf' = w_buf
             /\ w_steps' = "Writing"
             /\ wire' = wire]_vars

\* A call has ended on a 0-byte write with bytes still unsent.
C6_Witness ==
    /\ w_io = "zero" /\ w_ret.kind = "err_eof" /\ w_pc = "ready"
    /\ w_steps = "Writing" /\ Len(w_buf) > 0

\* C9: when no call has failed, whatever slices the retries passed, the
\* transport has received the IV and then the ciphertext of the slices
\* reported as accepted, in that order.
C9_AbandonSafe ==
    (w_pc = "ready" /\ w_steps = "Nothing" /\ ~w_anyErr /\ w_acc # << >>) =>
        wire = iv \o UpdateAll(kind, new_stream("Encrypt"), w_acc)

\* The last n elements of s.
Suffix(s, n) == SubSeq(s, Len(s) - n + 1, Len(s))

C7_ChunkingIndependence ==
    ~r_anyErr =>
        LET whole == BigReads(kind, new_stream("Decrypt"), r_all)
        IN  /\ IsPrefix(r_out, whole)
            /\ ReaderDone => r_out = whole

\* The longest input, delivered one byte per transport read, has come out.
C7_Witness ==
    /\ ReaderDone /\ ~r_anyErr
    /\ Len(r_all) = MaxCipher /\ r_reads = MaxCipher
    /\ Len(r_out) = MaxCipher

\* C8 as stated: fill returns 0 only when the reader is finished and
\* everything was handed out, for every destination slice.
C8_ZeroOnlyAtEof ==
    (r_pc = "ready" /\ r_ret.kind = "ok" /\ r_ret.n = 0) =>
        (r_got_final /\ r_pos >= Len(r_buffer))

\* C8 amended: for a non-empty destination slice, fill returns 0 only when
\* the reader is finished and everything was handed out, also after cipher
\* updates that produced no output; a count never exceeds the destination
\* length.
C8_ZeroOnlyAtEofNonEmptyDst ==
    /\ (r_pc = "ready" /\ r_ret.kind = "ok" /\ r_ret.n = 0 /\ r_dst > 0) =>
          (r_got_final /\ r_pos >= Len(r_buffer))
    /\ (r_pc = "ready" /\ r_ret.kind = "ok") => r_ret.n <= r_dst
    /\ (r_pc = "ready" /\ r_ret.kind # "none") =>
          r_ret.kind \in {"ok", "pending", "err_io", "err_cipher"}

\* A call went through a cipher update without output and returned bytes.
C8_Witness ==
    /\ r_pc = "ready" /\ r_emptyUpd /\ ~r_got_final
    /\ r_io = "data"
    /\ r_ret.kind = "ok" /\ r_ret.n > 0

\* C10: a not-ready transport read ends the call with pending and leaves
\* buffer, pos, got_final and the cipher as they were when the read was
\* issued; issuing the read changes none of them; the buffer, the cipher
\* and got_final change only when a transport read has returned a count.
C10_SuspensionFrame ==
    [][/\ (r_pc = "reading" /\ r_io' = "pending") =>
             /\ r_ret'.kind = "pending"
             /\ r_pc' = "ready"
             /\ UNCHANGED <<r_buffer, r_pos, r_got_final, r_cipher>>
       /\ (r_pc = "ready" /\ r_pc' = "reading") =>
             UNCHANGED <<r_buffer, r_pos, r_got_final, r_cipher>>
       /\ (r_buffer' # r_buffer \/ r_cipher' # r_cipher
             \/ r_got_final' # r_got_final \/ r_pos' < r_pos) =>
             (r_pc = "reading" /\ r_io' \in {"data", "eof"})]_vars

\* A call has returned pending with the used-up buffer still in place.
C10_Witness ==
    /\ r_pc = "ready" /\ r_io = "pending" /\ r_ret.kind = "pending"
    /\ Len(r_buffer) > 0 /\ r_pos = Len(r_buffer)

\* C11: the writer is always in exactly one of Nothing (with no unsent
\* bytes) and Writing; a call passes its slice to cipher update only when it
\* finds the writer in Nothing, and a call that finds it in Writing leaves
\* the cipher, the unsent bytes and the ciphertext produced so far alone;
\* the writer goes from Writing to Nothing only on the transport write that
\* takes the last unsent byte.
C11_WriterPhase ==
    [][/\ w_steps' \in {"Nothing", "Writing"}
       /\ (w_steps' = "Nothing") => (w_buf' = << >>)
       /\ (w_calls' # w_calls /\ w_steps = "Writing") =>
             /\ w_nUpd' = (IF FreshSeries THEN 0 ELSE w_nUpd)
             /\ ~(w_pc' = "ready" /\ w_ret'.kind = "err_cipher")
             /\ UNCHANGED <<w_cipher, w_ct, w_buf, w_steps, wire>>
       /\ (w_calls' # w_calls /\
              (w_nUpd' = (IF FreshSeries THEN 0 ELSE w_nUpd) + 1
                 \/ w_cipher' # w_cipher \/ w_ct' # w_ct
                 \/ (w_pc' = "ready" /\ w_ret'.kind = "err_cipher"))) =>
             w_steps = "Nothing"
       /\ (w_steps = "Writing" /\ w_steps' = "Nothing") =>
             /\ w_pc = "writing" /\ w_io' = "some"
             /\ w_buf' = << >>
             /\ wire' = wire \o w_buf]_vars

\* A flush begun by one call was completed by a later call that passed
\* another slice; one cipher update was made for the two calls.
C11_Witness ==
    /\ w_pc = "ready" /\ w_steps = "Nothing" /\ w_ret.kind = "ok"
    /\ w_calls = 2 /\ w_nUpd = 1
    /\ w_first # w_data
    /\ wire = w_base \o w_full

\* C12: whatever the outcomes of the calls, the transport reads and the
\* cipher calls, pos never exceeds the length of the buffer; once got_final
\* is true it stays true, no transport read is issued, nothing is taken from
\* the transport and the cipher is not called.
C12_ReaderState ==
    [][/\ r_pos <= Len(r_buffer)
       /\ r_pos' <= Len(r_buffer')
       /\ r_got_final =>
             /\ r_got_final'
             /\ r_pc = "ready" /\ r_pc' = "ready"
             /\ UNCHANGED <<r_cipher, r_buffer, r_dec, r_reads, r_in>>]_vars

\* After a failed cipher call and two transport reads the reader finished,
\* handed out what finalize produced, and a later call returned 0.
C12_Witness ==
    /\ r_got_final /\ r_cipherErr /\ r_pc = "ready"
    /\ r_pos = Len(r_buffer) /\ Len(r_buffer) > 0
    /\ r_io = "none" /\ r_dst > 0
    /\ r_ret = [kind |-> "ok", n |-> 0]
    /\ r_reads >= 2

C14_ReportsOriginalLength ==
    (w_pc = "ready" /\ w_ret.kind = "ok") => w_ret.n = Len(w_upData)

C16_NoLossNoDup ==
    /\ (r_pc = "reading") => (r_pos >= Len(r_buffer))
    /\ r_pos <= Len(r_buffer) => r_out \o Drop(r_buffer, r_pos) = r_dec
    /\ IsPrefix(r_out, r_dec)
    /\ ReaderDone => r_out = r_dec

\* With no error, several transport reads and output from finalize, the
\* reader is done and the caller has every byte the cipher produced.
C16_Witness ==
    /\ ReaderDone /\ ~r_anyErr
    /\ r_reads >= 2 /\ Len(r_finOut) > 0
    /\ r_out = r_dec /\ Len(r_out) = MaxCipher

\* C17: a transport write that fails or takes 0 bytes ends the call with
\* an error and leaves the writer in Writing with the bytes the transport
\* has not taken, and the cipher, the IV slot and the bytes on the wire as
\* they were; the next call goes straight to the transport write with the
\* same unsent bytes and leaves the cipher alone; every write the transport
\* takes comes off the front of the unsent bytes.
C17_FailedFlushKeepsRemainder ==
    [][/\ (w_pc = "writing" /\ w_io' \in {"err", "zero"}) =>
             /\ w_pc' = "ready"
             /\ w_ret'.kind = (IF w_io' = "err" THEN "err_io" ELSE "err_eof")
             /\ w_steps' = "Writing"
             /\ Len(w_buf') > 0
             /\ w_base' \o w_full' = wire' \o w_buf'
             /\ UNCHANGED <<w_buf, w_cipher, w_iv, wire>>
       /\ (w_pc = "ready" /\ w_ret.kind \in {"err_io", "err_eof"}
              /\ w_calls' # w_calls) =>
             /\ w_pc' = "writing"
             /\ w_steps' = "Writing"
             /\ UNCHANGED <<w_buf, w_cipher, w_ct, w_taken, w_iv, wire>>
       /\ (w_pc = "writing" /\ w_io' = "some") =>
             wire' \o w_buf' = wire \o w_buf]_vars

\* A call ended on a transport error; the next call passed another slice,
\* sent the rest, and the transport has the buffer as it was built.
C17_Witness ==
    /\ w_pc = "ready" /\ w_ret.kind = "ok" /\ w_steps = "Nothing"
    /\ w_anyErr /\ ~w_cipherErr
    /\ w_calls = 2 /\ w_nUpd = 1 /\ Len(w_taken) = 1
    /\ w_data # w_first
    /\ Len(w_full) > IvLen
    /\ wire = w_base \o w_full

\* C18 as stated: when the first success of a fresh writer comes from calls
\* that all passed an empty slice, the transport has received exactly the
\* IV and the count is 0; every call that passes an empty slice once the
\* whole IV is on the wire returns 0 at once, with no transport write and
\* the writer in Nothing.
C18_EmptySubmitAsClaimed ==
    [][/\ (/\ w_pc' = "ready" /\ w_ret'.kind = "ok" /\ Len(w_acc') = 1
           /\ w_same' /\ w_first' = << >> /\ ~w_cipherErr') =>
             /\ wire' = iv
             /\ w_ret'.n = 0
             /\ w_steps' = "Nothing"
       /\ (/\ w_calls' # w_calls /\ w_data' = << >>
           /\ ~w_iv.some /\ Len(wire) >= Len(iv)
           /\ \A i \in 1..Len(iv) : wireTag[i] = "iv"
           /\ ~(w_pc' = "ready" /\ w_ret'.kind = "err_cipher")) =>
             /\ w_pc' = "ready"
             /\ w_ret' = [kind |-> "ok", n |-> 0]
             /\ w_steps' = "Nothing"
             /\ w_io' = "none"
             /\ wire' = wire]_vars

\* C18 amended: when the first success of a fresh writer comes from calls
\* that all passed an empty slice, the transport has received exactly the
\* IV and the count is 0; a call that passes an empty slice once the whole
\* IV is on the wire and finds the writer in Nothing returns 0 at once,
\* with no transport write and the writer in Nothing; one that finds the
\* writer in Writing goes to the transport write for the unsent bytes.
C18_EmptySubmitWhenIdle ==
    [][/\ (/\ w_pc' = "ready" /\ w_ret'.kind = "ok" /\ Len(w_acc') = 1
           /\ w_same' /\ w_first' = << >> /\ ~w_cipherErr') =>
             /\ wire' = iv
             /\ w_ret'.n = 0
             /\ w_steps' = "Nothing"
       /\ (/\ w_calls' # w_calls /\ w_data' = << >>
           /\ w_steps = "Nothing"
           /\ ~w_iv.some /\ Len(wire) >= Len(iv)
           /\ \A i \in 1..Len(iv) : wireTag[i] = "iv"
           /\ ~(w_pc' = "ready" /\ w_ret'.kind = "err_cipher")) =>
             /\ w_pc' = "ready"
             /\ w_ret' = [kind |-> "ok", n |-> 0]
             /\ w_steps' = "Nothing"
             /\ w_io' = "none"
             /\ wire' = wire
       /\ (w_calls' # w_calls /\ w_data' = << >> /\ w_steps = "Writing") =>
             /\ w_pc' = "writing"
             /\ w_steps' = "Writing"
             /\ UNCHANGED <<w_buf, wire>>]_vars

\* After a non-empty slice and the IV went out, a call with an empty slice
\* found the writer in Nothing and returned 0 without a transport write.
C18_Witness ==
    /\ w_pc = "ready" /\ w_steps = "Nothing" /\ w_io = "none"
    /\ w_ret = [kind |-> "ok", n |-> 0]
    /\ w_calls = 2 /\ Len(w_taken) = 2
    /\ w_taken[1] # << >> /\ w_taken[2] = << >>
    /\ iv = IVFull
    /\ wire = iv \o UpdateAll(kind, new_stream("Encrypt"), w_taken)

====
